---- MODULE Spec2Model ----
(***************************************************************************)
(* A model of the SEC EDGAR downloader: the rate-limited singleton client  *)
(* of makeRequest.py, the company index, search and browse of              *)
(* searchSecCompanies.py, and the row correction of requestCompanyFacts.py.*)
(*                                                                         *)
(* Spec        RateLimiter, EdgarClient and makeRequest, run by threads.   *)
(* FairSpec    Spec with the scheduler's and the clock's weak fairness.    *)
(* BurstSpec   Spec with the history of the completions of wait() by age.  *)
(* SearchSpec  createHashIndexes and the lookups on a loaded company list. *)
(* PromptSpec  searchCompany, parseSearchResults and handleSearchResults   *)
(*             with the user at the keyboard.                              *)
(* BrowseSpec  browseAllCompanies with the user at the keyboard.           *)
(* FactsSpec   updateFyAndFrameCols of requestCompanyFacts.py.             *)
(* MainSpec    main and mainSearch: the fetch of the list, the menu, the   *)
(*             search or the browse, and the two follow-up fetches with    *)
(*             the parse of the facts, the requests run through the client *)
(*             by main's one thread.                                       *)
(***************************************************************************)
EXTENDS Integers, Sequences, FiniteSets, TLC

(***************************************************************************)
(* Bounds.  makeRequest builds RateLimiter(maxCalls=10, period=60); the    *)
(* model runs the same class with a smaller maxCalls and with the period   *)
(* counted in clock ticks.  The requests allowed are enough for a window   *)
(* to fill, one more caller to sleep, and another to queue behind it.      *)
(***************************************************************************)
MaxCalls == 1
Period == 1
MaxRequests == MaxCalls + 2

Threads == {1, 2}
None == 0
NoThread == 0
LimiterIds == 1 .. MaxRequests
ObjectIds == 1 .. MaxRequests

(***************************************************************************)
(* Timestamps are kept relative to the present.  time.time() always reads  *)
(* Now, and a tick of the clock lowers every stored timestamp by one, not  *)
(* below 0.  Every difference time.time() - startTime the code computes is *)
(* kept exactly up to Period, and stays above Period once it is above it.  *)
(***************************************************************************)
Now == Period + 1

VARIABLES
  rl,         \* RateLimiter objects: calls, startTime
  rlLock,     \* RateLimiter.lock of each object: the holding thread
  started,    \* number of requests started so far
  clsLock,    \* EdgarClient._lock: the holding thread
  instance,   \* EdgarClient._instance: an object id or None
  nObjs,      \* number of EdgarClient objects allocated
  objs,       \* rateLimiter attribute of each EdgarClient object
  pc,         \* position of each thread
  kind,       \* what the thread is running: makeRequest or a direct get_data
  arg,        \* rateLimiter argument of the thread's construction
  client,     \* the EdgarClient the thread's construction returned
  elapsed,    \* local elapsed of wait()
  loaded,     \* value of self.calls read by self.calls += 1
  outcome,    \* what requests.get did for the thread
  result,     \* what get_data / makeRequest gave the caller
  waited,     \* history: limiter whose wait() the thread completed in this request
  blocked,    \* history: the thread's wait() found no slot at least once
  consumed,   \* history: increments of calls made by the thread's wait()
  grants,     \* history: wait() completions per limiter since its last reset
  observed,   \* history: completions within period of the limiter's startTime
  recent,     \* history: completions per limiter by age in ticks, if kept
  phase,        \* position of the search program
  companyData,  \* the company list, in the iteration order of companyData.items()
  tickerIndex,  \* createHashIndexes: lower-cased ticker -> [cik_str, title] records
  titleIndex,   \* createHashIndexes: lower-cased title -> [cik_str, ticker] records
  cikIndex,     \* createHashIndexes: str(cik_str) -> [ticker, title] records
  lookup,       \* the lookup function last called
  query,        \* its target argument
  found,        \* what it returned
  prompt,       \* searchCompany and handleSearchResults: locals and outcome
  browse,       \* browseAllCompanies: locals and the table displayed
  session,      \* main and mainSearch: the server's list, and history of the run
  facts         \* updateFyAndFrameCols: the rows given and the rows returned

rlVars == <<rl, rlLock, started, clsLock, instance, nObjs, objs, pc, kind,
            arg, client, elapsed, loaded, outcome, result, waited, blocked,
            consumed, grants, observed, recent>>

searchVars == <<phase, companyData, tickerIndex, titleIndex, cikIndex, lookup,
                query, found, prompt, browse, session, facts>>

\* What the search, the prompt and the browse leave alone
otherVars == <<rlVars, session, facts>>

\* The fields of prompt
userInput == prompt.userInput          \* the text the user typed, stripped
consulted == prompt.consulted          \* history: the indexes looked in for it
parsedResults == prompt.parsedResults  \* what parseSearchResults returned
selection == prompt.selection          \* what the user typed at the selection
retries == prompt.retries              \* history: searches that found nothing
ret == prompt.ret                      \* what mainSearch's callee returned
fault == prompt.fault                  \* the exception that left the program

\* The fields of browse
companiesSorted == browse.companiesSorted  \* the rows [title, ticker, cik]
screenHeight == browse.screenHeight        \* rows per page
currentPage == browse.currentPage          \* the page displayed
totalPages == browse.totalPages            \* number of pages
action == browse.action                    \* what the user typed last
shown == browse.shown                      \* the table rows on the screen

vars == <<rlVars, searchVars>>

\* A return value that is a list or None.
PyNone == [isNone |-> TRUE, list |-> <<>>]
PyList(l) == [isNone |-> FALSE, list |-> l]

Freed == [alive |-> FALSE, maxCalls |-> 0, calls |-> 0, startTime |-> 0]

Outcomes == {"ok", "status", "transport", "badjson"}

----------------------------------------------------------------------------
(* RateLimiter *)

\* RateLimiter.__init__; self.period is Period ticks for every limiter
NewRateLimiter(maxCalls, now) ==
  [alive |-> TRUE, maxCalls |-> maxCalls, calls |-> 0, startTime |-> now]

\* Mutants of WindowExpired: a window that never expires, one that expires a
\* tick early, and one that every call finds expired.
WindowNeverExpires(e) == FALSE
WindowExpiresEarly(e) == e >= Period
WindowAlwaysExpired(e) == TRUE

\* wait: if elapsed > self.period
WindowExpired(e) == e > Period

\* Mutant of HasSlot: the comparison off by one.
HasSlotOffByOne(limiter) == limiter.calls <= limiter.maxCalls

\* wait: if self.calls < self.maxCalls
HasSlot(limiter) == limiter.calls < limiter.maxCalls

\* Mutant of LockFree: wait() without the lock.
LockIgnored(l) == TRUE

\* with self.lock: the lock can be taken
LockFree(l) == rlLock[l] = NoThread

----------------------------------------------------------------------------
(* EdgarClient *)

\* Mutant of InstanceIsNone: every construction makes a new object.
InstanceAlwaysNew == TRUE

\* __new__: if cls._instance is None
InstanceIsNone == instance = None

\* with cls._lock: the lock can be taken
ClassLockFree == clsLock = NoThread

\* Mutant of HasLimiter: get_data without the call of wait().
HasLimiterNever(c) == FALSE

\* get_data: if self.rateLimiter
HasLimiter(c) == objs[c] # None

\* get_data: what the call gives for an outcome of requests.get
GetDataResult(o) ==
  CASE o = "transport" -> "raise"           \* requests.get raises
    [] o = "status"    -> "None"            \* status_code != 200
    [] o = "badjson"   -> "raise"           \* response.json() raises
    [] OTHER           -> "json"

\* Mutant of MakeRequestResult: makeRequest without the except clause.
MakeRequestNoExcept(r) == r

\* makeRequest: try: return companyData / except Exception: return None
MakeRequestResult(r) == IF r = "raise" THEN "None" ELSE r

----------------------------------------------------------------------------
\* The completions of wait() are not remembered.
NoHistory == <<>>

\* No completion yet within the last Period ticks.
NoCompletion == [l \in LimiterIds |-> [a \in 0 .. Period |-> 0]]

\* wait() of limiter l returns now: one more completion of age 0.
Completed(h, l) == IF h = NoHistory THEN h ELSE [h EXCEPT ![l][0] = @ + 1]

\* One tick later: every completion is one tick older, and those older than
\* Period are forgotten.
Aged(h) ==
  IF h = NoHistory THEN h
  ELSE [l \in LimiterIds |->
          [a \in 0 .. Period |-> IF a = 0 THEN 0 ELSE h[l][a - 1]]]

\* The state at import of makeRequest: no client, no request.
ClientStart ==
  /\ rl = [l \in LimiterIds |-> Freed]
  /\ rlLock = [l \in LimiterIds |-> NoThread]
  /\ started = 0
  /\ clsLock = NoThread
  /\ instance = None
  /\ nObjs = 0
  /\ objs = [o \in ObjectIds |-> None]
  /\ pc = [t \in Threads |-> "idle"]
  /\ kind = [t \in Threads |-> "none"]
  /\ arg = [t \in Threads |-> None]
  /\ client = [t \in Threads |-> None]
  /\ elapsed = [t \in Threads |-> 0]
  /\ loaded = [t \in Threads |-> 0]
  /\ outcome = [t \in Threads |-> "none"]
  /\ result = [t \in Threads |-> "none"]
  /\ waited = [t \in Threads |-> None]
  /\ blocked = [t \in Threads |-> FALSE]
  /\ consumed = [t \in Threads |-> 0]
  /\ grants = [l \in LimiterIds |-> 0]
  /\ observed = [l \in LimiterIds |-> 0]

\* The same, with no history of the completions kept.
ClientInit == ClientStart /\ recent = NoHistory

\* No prompt of searchCompany yet.
PromptIdle ==
  prompt = [userInput |-> <<>>,
            consulted |-> <<>>,
            parsedResults |-> [kind |-> "unset"],
            selection |-> [kind |-> "unset"],
            retries |-> 0,
            ret |-> [kind |-> "unset"],
            fault |-> "none"]

\* No browse yet.
BrowseIdle ==
  browse = [companiesSorted |-> <<>>,
            screenHeight |-> 0,
            currentPage |-> 0,
            totalPages |-> 0,
            action |-> [kind |-> "unset"],
            shown |-> <<>>]

\* main not started: nothing fetched, nothing indexed.
SessionIdle ==
  session = [remote |-> <<>>, fetches |-> 0, builds |-> 0, followUp |-> "none",
             padded |-> <<>>]

\* No call of updateFyAndFrameCols yet.
FactsIdle == facts = [rows |-> <<>>, corrected |-> <<>>, done |-> FALSE]

\* The search program not started.
SearchIdle ==
  /\ phase = "off"
  /\ companyData = <<>>
  /\ tickerIndex = <<>>
  /\ titleIndex = <<>>
  /\ cikIndex = <<>>
  /\ lookup = "none"
  /\ query = <<>>
  /\ found = PyNone
  /\ PromptIdle
  /\ BrowseIdle
  /\ SessionIdle
  /\ FactsIdle

Init == ClientInit /\ SearchIdle

\* The thread enters EdgarClient.__new__ with rateLimiter=a.
Begin(t, k, a) ==
  /\ pc' = [pc EXCEPT ![t] = "new_lock"]
  /\ kind' = [kind EXCEPT ![t] = k]
  /\ arg' = [arg EXCEPT ![t] = a]
  /\ UNCHANGED <<client, elapsed, loaded, outcome, result, waited, blocked,
                 consumed>>

\* makeRequest up to EdgarClient(rateLimiter=RateLimiter(maxCalls, period)): the
\* fresh limiter, whose identity is the argument.  rl keeps the fields of the
\* limiters a client object holds or can still take.
StartMakeRequest(t) ==
  /\ pc[t] = "idle"
  /\ started < MaxRequests
  /\ started' = started + 1
  /\ rl' = IF InstanceIsNone
           THEN [rl EXCEPT ![started + 1] = NewRateLimiter(MaxCalls, Now)]
           ELSE rl
  /\ Begin(t, "makeRequest", started + 1)
  /\ UNCHANGED <<rlLock, clsLock, instance, nObjs, objs, grants, observed>>
  /\ UNCHANGED recent
  /\ UNCHANGED searchVars

\* A caller that builds EdgarClient() itself, with the default rateLimiter=None,
\* and calls get_data on it.
StartDirect(t) ==
  /\ pc[t] = "idle"
  /\ started < MaxRequests
  /\ started' = started + 1
  /\ Begin(t, "get_data", None)
  /\ UNCHANGED <<rl, rlLock, clsLock, instance, nObjs, objs, grants, observed>>
  /\ UNCHANGED recent
  /\ UNCHANGED searchVars

\* __new__: with cls._lock
NewAcquire(t) ==
  /\ pc[t] = "new_lock"
  /\ ClassLockFree
  /\ clsLock' = t
  /\ pc' = [pc EXCEPT ![t] = "new_body"]
  /\ UNCHANGED <<rl, rlLock, started, instance, nObjs, objs, kind, arg,
                 client, elapsed, loaded, outcome, result, waited, blocked,
                 consumed, grants, observed>>
  /\ UNCHANGED recent
  /\ UNCHANGED searchVars

\* __new__: the body of the with block
NewBody(t) ==
  /\ pc[t] = "new_body"
  /\ IF InstanceIsNone
     THEN /\ nObjs' = nObjs + 1
          /\ instance' = nObjs + 1
          /\ objs' = [objs EXCEPT ![nObjs + 1] = arg[t]]
          /\ rl' = [l \in LimiterIds |-> IF l = arg[t] THEN rl[l] ELSE Freed]
     ELSE UNCHANGED <<nObjs, instance, objs, rl>>
  /\ pc' = [pc EXCEPT ![t] = "new_exit"]
  /\ UNCHANGED <<rlLock, started, clsLock, kind, arg, client, elapsed,
                 loaded, outcome, result, waited, blocked, consumed, grants,
                 observed>>
  /\ UNCHANGED recent
  /\ UNCHANGED searchVars

\* __new__: leaving the with block releases cls._lock
NewRelease(t) ==
  /\ pc[t] = "new_exit"
  /\ clsLock' = NoThread
  /\ pc' = [pc EXCEPT ![t] = "new_ret"]
  /\ UNCHANGED <<rl, rlLock, started, instance, nObjs, objs, kind, arg,
                 client, elapsed, loaded, outcome, result, waited, blocked,
                 consumed, grants, observed>>
  /\ UNCHANGED recent
  /\ UNCHANGED searchVars

\* __new__: return cls._instance
NewReturn(t) ==
  /\ pc[t] = "new_ret"
  /\ client' = [client EXCEPT ![t] = instance]
  /\ pc' = [pc EXCEPT ![t] = "get_data"]
  /\ UNCHANGED <<rl, rlLock, started, clsLock, instance, nObjs, objs, kind, arg,
                 elapsed, loaded, outcome, result, waited, blocked, consumed,
                 grants, observed>>
  /\ UNCHANGED recent
  /\ UNCHANGED searchVars

\* get_data: if self.rateLimiter: self.rateLimiter.wait()
GetData(t) ==
  /\ pc[t] = "get_data"
  /\ pc' = [pc EXCEPT ![t] = IF HasLimiter(client[t]) THEN "w_lock" ELSE "net"]
  /\ UNCHANGED <<rl, rlLock, started, clsLock, instance, nObjs, objs, kind,
                 arg, client, elapsed, loaded, outcome, result, waited, blocked,
                 consumed, grants, observed>>
  /\ UNCHANGED recent
  /\ UNCHANGED searchVars

\* The limiter a thread inside wait() works on: self of wait().
Self(t) == objs[client[t]]

\* wait: with self.lock
WaitAcquire(t) ==
  /\ pc[t] = "w_lock"
  /\ LockFree(Self(t))
  /\ rlLock' = [rlLock EXCEPT ![Self(t)] = t]
  /\ pc' = [pc EXCEPT ![t] = "w_window"]
  /\ UNCHANGED <<rl, started, clsLock, instance, nObjs, objs, kind, arg,
                 client, elapsed, loaded, outcome, result, waited, blocked,
                 consumed, grants, observed>>
  /\ UNCHANGED recent
  /\ UNCHANGED searchVars

\* wait: currentTime, elapsed, and the reset of an expired window
WaitWindow(t) ==
  LET l == Self(t)
      e == Now - rl[l].startTime
  IN /\ pc[t] = "w_window"
     /\ elapsed' = [elapsed EXCEPT ![t] = e]
     /\ IF WindowExpired(e)
        THEN /\ rl' = [rl EXCEPT ![l].calls = 0, ![l].startTime = Now]
             /\ grants' = [grants EXCEPT ![l] = 0]
             /\ observed' = [observed EXCEPT ![l] = 0]
        ELSE UNCHANGED <<rl, grants, observed>>
     /\ pc' = [pc EXCEPT ![t] = "w_test"]
     /\ UNCHANGED <<rlLock, started, clsLock, instance, nObjs, objs, kind,
                    arg, client, loaded, outcome, result, waited, blocked, consumed>>
     /\ UNCHANGED recent
     /\ UNCHANGED searchVars

\* wait: if self.calls < self.maxCalls ... else time.sleep(0.1)
WaitTest(t) ==
  /\ pc[t] = "w_test"
  /\ IF HasSlot(rl[Self(t)])
     THEN /\ pc' = [pc EXCEPT ![t] = "w_load"]
          /\ blocked' = blocked
     ELSE /\ pc' = [pc EXCEPT ![t] = "w_sleep"]
          /\ blocked' = [blocked EXCEPT ![t] = TRUE]
  /\ UNCHANGED <<rl, rlLock, started, clsLock, instance, nObjs, objs, kind,
                 arg, client, elapsed, loaded, outcome, result, waited, consumed,
                 grants, observed>>
  /\ UNCHANGED recent
  /\ UNCHANGED searchVars

\* wait: self.calls += 1, the read
WaitLoad(t) ==
  /\ pc[t] = "w_load"
  /\ loaded' = [loaded EXCEPT ![t] = rl[Self(t)].calls]
  /\ pc' = [pc EXCEPT ![t] = "w_store"]
  /\ UNCHANGED <<rl, rlLock, started, clsLock, instance, nObjs, objs, kind,
                 arg, client, elapsed, outcome, result, waited, blocked, consumed,
                 grants, observed>>
  /\ UNCHANGED recent
  /\ UNCHANGED searchVars

\* wait: self.calls += 1, the write
WaitStore(t) ==
  /\ pc[t] = "w_store"
  /\ rl' = [rl EXCEPT ![Self(t)].calls = loaded[t] + 1]
  /\ loaded' = [loaded EXCEPT ![t] = 0]
  /\ consumed' = [consumed EXCEPT ![t] = consumed[t] + 1]
  /\ pc' = [pc EXCEPT ![t] = "w_ret"]
  /\ UNCHANGED <<rlLock, started, clsLock, instance, nObjs, objs, kind, arg,
                 client, elapsed, outcome, result, waited, blocked, grants,
                 observed>>
  /\ UNCHANGED recent
  /\ UNCHANGED searchVars

\* wait: return, which leaves the with block and releases self.lock
WaitReturn(t) ==
  LET l == Self(t)
  IN /\ pc[t] = "w_ret"
     /\ rlLock' = [rlLock EXCEPT ![l] = NoThread]
     /\ waited' = [waited EXCEPT ![t] = l]
     /\ grants' = [grants EXCEPT ![l] = grants[l] + 1]
     /\ observed' = IF Now <= rl[l].startTime + Period
                    THEN [observed EXCEPT ![l] = observed[l] + 1]
                    ELSE observed
     /\ recent' = Completed(recent, l)
     /\ elapsed' = [elapsed EXCEPT ![t] = 0]
     /\ pc' = [pc EXCEPT ![t] = "net"]
     /\ UNCHANGED <<rl, started, clsLock, instance, nObjs, objs, kind, arg,
                    client, loaded, outcome, result, blocked, consumed>>
     /\ UNCHANGED searchVars

\* wait: time.sleep(0.1) is over; back to the head of the loop
WaitSleep(t) ==
  /\ pc[t] = "w_sleep"
  /\ pc' = [pc EXCEPT ![t] = "w_window"]
  /\ UNCHANGED <<rl, rlLock, started, clsLock, instance, nObjs, objs, kind,
                 arg, client, elapsed, loaded, outcome, result, waited, blocked,
                 consumed, grants, observed>>
  /\ UNCHANGED recent
  /\ UNCHANGED searchVars

\* get_data: requests.get, the status test, and the return of get_data (or the
\* exception that leaves it).  The histories of the wait() end with its frame.
Net(t) ==
  /\ pc[t] = "net"
  /\ \E o \in Outcomes :
       /\ outcome' = [outcome EXCEPT ![t] = o]
       /\ result' = [result EXCEPT ![t] = GetDataResult(o)]
  /\ waited' = [waited EXCEPT ![t] = None]
  /\ blocked' = [blocked EXCEPT ![t] = FALSE]
  /\ consumed' = [consumed EXCEPT ![t] = 0]
  /\ pc' = [pc EXCEPT ![t] = IF kind[t] = "makeRequest" THEN "mr_try" ELSE "done"]
  /\ UNCHANGED <<rl, rlLock, started, clsLock, instance, nObjs, objs, kind, arg,
                 client, elapsed, loaded, grants, observed>>
  /\ UNCHANGED recent
  /\ UNCHANGED searchVars

\* makeRequest: the try / except around client.get_data
MakeRequestReturn(t) ==
  /\ pc[t] = "mr_try"
  /\ result' = [result EXCEPT ![t] = MakeRequestResult(result[t])]
  /\ pc' = [pc EXCEPT ![t] = "done"]
  /\ UNCHANGED <<rl, rlLock, started, clsLock, instance, nObjs, objs, kind, arg,
                 client, elapsed, loaded, outcome, waited, blocked, consumed,
                 grants, observed>>
  /\ UNCHANGED recent
  /\ UNCHANGED searchVars

\* The request returns to its caller: its frame is gone.
Return(t) ==
  /\ pc[t] = "done"
  /\ pc' = [pc EXCEPT ![t] = "idle"]
  /\ kind' = [kind EXCEPT ![t] = "none"]
  /\ arg' = [arg EXCEPT ![t] = None]
  /\ client' = [client EXCEPT ![t] = None]
  /\ outcome' = [outcome EXCEPT ![t] = "none"]
  /\ result' = [result EXCEPT ![t] = "none"]
  /\ UNCHANGED <<rl, rlLock, started, clsLock, instance, nObjs, objs, elapsed,
                 loaded, waited, blocked, consumed, grants, observed>>
  /\ UNCHANGED recent

\* The caller has the result and does nothing else with it.
Finish(t) ==
  /\ Return(t)
  /\ UNCHANGED searchVars

\* The clock advances by one tick: every stored timestamp is one tick older,
\* and so is every completion remembered.
Tick ==
  /\ rl' = [l \in LimiterIds |->
             IF rl[l].alive /\ rl[l].startTime > 0
             THEN [rl[l] EXCEPT !.startTime = @ - 1]
             ELSE rl[l]]
  /\ recent' = Aged(recent)
  /\ UNCHANGED <<rlLock, started, clsLock, instance, nObjs, objs, pc, kind, arg,
                 client, elapsed, loaded, outcome, result, waited, blocked,
                 consumed, grants, observed>>
  /\ UNCHANGED searchVars

\* The steps of a request already started, up to the result of makeRequest or
\* of get_data.
Run(t) ==
  \/ NewAcquire(t)
  \/ NewBody(t)
  \/ NewRelease(t)
  \/ NewReturn(t)
  \/ GetData(t)
  \/ WaitAcquire(t)
  \/ WaitWindow(t)
  \/ WaitTest(t)
  \/ WaitLoad(t)
  \/ WaitStore(t)
  \/ WaitReturn(t)
  \/ WaitSleep(t)
  \/ Net(t)
  \/ MakeRequestReturn(t)

\* The same, and the return to a caller that only takes the result.
Step(t) ==
  \/ Run(t)
  \/ Finish(t)

Next ==
  \/ \E t \in Threads : StartMakeRequest(t)
  \/ \E t \in Threads : StartDirect(t)
  \/ \E t \in Threads : Step(t)
  \/ Tick

Spec == Init /\ [][Next]_vars

\* The same program, watched for the completions of wait() in every interval of
\* Period ticks.
BurstInit == ClientStart /\ recent = NoCompletion /\ SearchIdle

BurstSpec == BurstInit /\ [][Next]_vars

\* Every runnable thread is scheduled again, and the clock keeps advancing.
FairSpec == Spec /\ WF_vars(Tick) /\ \A t \in Threads : WF_vars(Step(t))

----------------------------------------------------------------------------
(* searchSecCompanies.py: the company index and its lookups *)

(***************************************************************************)
(* A string is a sequence of one-character strings.  The company list is   *)
(* the sequence of the values of companyData.items(), each a record with   *)
(* cik_str (a number, as in the SEC file), ticker and title.               *)
(***************************************************************************)
MaxCompanies == 2
MaxQueryLen == 2

QueryChars == {"a", "A", "b", "1"}
TickerPool == {<<"A">>, <<"a">>}
\* parseSearchResults: the default 'N/A' of company.get
NA == <<"N", "/", "A">>
TitlePool == {<<"A", "b">>, <<"a", "b">>, <<"b">>, NA}
CikPool == {1, 12}

Companies == [cik_str : CikPool, ticker : TickerPool, title : TitlePool]
SeqsUpTo(S, n) == UNION {[1 .. k -> S] : k \in 0 .. n}
CompanyLists == SeqsUpTo(Companies, MaxCompanies)
Queries == SeqsUpTo(QueryChars, MaxQueryLen)

\* str.lower() on one character
Lower(c) ==
  CASE c = "A" -> "a"
    [] c = "B" -> "b"
    [] c = "N" -> "n"
    [] OTHER   -> c

\* str.lower()
LowerStr(s) == [i \in 1 .. Len(s) |-> Lower(s[i])]

\* s in t, for strings
IsSubstring(s, t) ==
  \E i \in 0 .. (Len(t) - Len(s)) : SubSeq(t, i + 1, i + Len(s)) = s

\* str(n) for a number n >= 0
DigitChar(d) == <<"0", "1", "2", "3", "4", "5", "6", "7", "8", "9">>[d + 1]
RECURSIVE Str(_)
Str(n) == IF n < 10
          THEN <<DigitChar(n)>>
          ELSE Append(Str(n \div 10), DigitChar(n % 10))

(***************************************************************************)
(* A dict is the sequence of its entries [key, bucket] in insertion order. *)
(***************************************************************************)
HasKey(index, k) == \E i \in 1 .. Len(index) : index[i].key = k
KeyPos(index, k) == CHOOSE i \in 1 .. Len(index) : index[i].key = k

\* Mutant of SetDefaultAppend: index[k] = [x], which overwrites the bucket.
SetDefaultOverwrite(index, k, x) ==
  IF HasKey(index, k)
  THEN [index EXCEPT ![KeyPos(index, k)].bucket = <<x>>]
  ELSE Append(index, [key |-> k, bucket |-> <<x>>])

\* index.setdefault(k, []).append(x)
SetDefaultAppend(index, k, x) ==
  IF HasKey(index, k)
  THEN [index EXCEPT ![KeyPos(index, k)].bucket = Append(@, x)]
  ELSE Append(index, [key |-> k, bucket |-> <<x>>])

\* index.get(k, None)
DictGet(index, k) ==
  IF HasKey(index, k) THEN PyList(index[KeyPos(index, k)].bucket) ELSE PyNone

\* createHashIndexes: the three dicts after the first n companies of the loop
RECURSIVE IndexesUpTo(_, _)
IndexesUpTo(data, n) ==
  IF n = 0
  THEN [ticker |-> <<>>, title |-> <<>>, cik |-> <<>>]
  ELSE LET prev == IndexesUpTo(data, n - 1)
           company == data[n]
       IN [ticker |-> SetDefaultAppend(prev.ticker, LowerStr(company.ticker),
                        [cik_str |-> company.cik_str, title |-> company.title]),
           title  |-> SetDefaultAppend(prev.title, LowerStr(company.title),
                        [cik_str |-> company.cik_str, ticker |-> company.ticker]),
           cik    |-> SetDefaultAppend(prev.cik, Str(company.cik_str),
                        [ticker |-> company.ticker, title |-> company.title])]

createHashIndexes(data) == IndexesUpTo(data, Len(data))

\* searchByTicker
searchByTicker(index, tickerTarget) == DictGet(index, LowerStr(tickerTarget))

\* searchByCik
searchByCik(index, cikTarget) == DictGet(index, cikTarget)

\* Mutant of TitleMatches: a partial match must be a proper part of the title.
TitleMatchesProperPart(title, titleTarget, partial) ==
  IF partial
  THEN IsSubstring(titleTarget, LowerStr(title)) /\ Len(titleTarget) < Len(title)
  ELSE titleTarget = LowerStr(title)

\* searchByTitle (the definition in force, the second one of the file): the test
\* of one title of the index against the target
TitleMatches(title, titleTarget, partial) ==
  IF partial
  THEN IsSubstring(titleTarget, LowerStr(title))
  ELSE titleTarget = LowerStr(title)

\* searchByTitle: result after the first n entries of titleIndex.items()
RECURSIVE TitleScan(_, _, _, _)
TitleScan(index, titleTarget, partial, n) ==
  IF n = 0
  THEN <<>>
  ELSE LET sofar == TitleScan(index, titleTarget, partial, n - 1)
       IN IF TitleMatches(index[n].key, titleTarget, partial)
          THEN sofar \o index[n].bucket
          ELSE sofar

\* searchByTitle: return result if result else None
searchByTitle(index, titleTarget, partial) ==
  LET matches == TitleScan(index, titleTarget, partial, Len(index))
  IN IF matches # <<>> THEN PyList(matches) ELSE PyNone

\* The company list is loaded; nothing is indexed yet.
SearchInit ==
  /\ ClientInit
  /\ phase = "loaded"
  /\ companyData \in CompanyLists
  /\ tickerIndex = <<>>
  /\ titleIndex = <<>>
  /\ cikIndex = <<>>
  /\ lookup = "none"
  /\ query = <<>>
  /\ found = PyNone
  /\ PromptIdle
  /\ BrowseIdle
  /\ SessionIdle
  /\ FactsIdle

\* mainSearch: tickerIndex, titleIndex, cikIndex = createHashIndexes(companyData)
CreateHashIndexes ==
  /\ phase = "loaded"
  /\ LET built == createHashIndexes(companyData)
     IN /\ tickerIndex' = built.ticker
        /\ titleIndex' = built.title
        /\ cikIndex' = built.cik
  /\ phase' = "indexed"
  /\ UNCHANGED <<companyData, lookup, query, found>>
  /\ UNCHANGED <<otherVars, prompt, browse>>

\* A call searchByTicker(tickerIndex, q) on the index just built
SearchByTicker ==
  /\ phase = "indexed"
  /\ \E q \in Queries :
       /\ query' = q
       /\ found' = searchByTicker(tickerIndex, q)
  /\ lookup' = "ticker"
  /\ phase' = "searched"
  /\ UNCHANGED <<companyData, tickerIndex, titleIndex, cikIndex>>
  /\ UNCHANGED <<otherVars, prompt, browse>>

\* A call searchByCik(cikIndex, q)
SearchByCik ==
  /\ phase = "indexed"
  /\ \E q \in Queries :
       /\ query' = q
       /\ found' = searchByCik(cikIndex, q)
  /\ lookup' = "cik"
  /\ phase' = "searched"
  /\ UNCHANGED <<companyData, tickerIndex, titleIndex, cikIndex>>
  /\ UNCHANGED <<otherVars, prompt, browse>>

\* A call searchByTitle(titleIndex, q), partial left at its default False
SearchByTitleExact ==
  /\ phase = "indexed"
  /\ \E q \in Queries :
       /\ query' = q
       /\ found' = searchByTitle(titleIndex, q, FALSE)
  /\ lookup' = "title"
  /\ phase' = "searched"
  /\ UNCHANGED <<companyData, tickerIndex, titleIndex, cikIndex>>
  /\ UNCHANGED <<otherVars, prompt, browse>>

\* A call searchByTitle(titleIndex, q, partial=True)
SearchByTitlePartial ==
  /\ phase = "indexed"
  /\ \E q \in Queries :
       /\ query' = q
       /\ found' = searchByTitle(titleIndex, q, TRUE)
  /\ lookup' = "title_partial"
  /\ phase' = "searched"
  /\ UNCHANGED <<companyData, tickerIndex, titleIndex, cikIndex>>
  /\ UNCHANGED <<otherVars, prompt, browse>>

SearchNext ==
  \/ CreateHashIndexes
  \/ SearchByTicker
  \/ SearchByCik
  \/ SearchByTitleExact
  \/ SearchByTitlePartial

SearchSpec == SearchInit /\ [][SearchNext]_vars

----------------------------------------------------------------------------
(* searchSecCompanies.py: searchCompany and handleSearchResults *)

\* What the user can type at the prompt of searchCompany, after strip():
\* digits that are an identifier of the list, padded digits, tickers and titles
\* in either case, a mix of letters and digits, the empty line and punctuation.
InputPool ==
  {<<>>, <<"1">>, <<"1", "2">>, <<"0", "1">>, <<"a">>, <<"A">>, <<"b">>,
   <<"A", "b">>, <<"a", "1">>, <<"/">>, <<"a", "/">>}

DigitChars == {"0", "1", "2", "3", "4", "5", "6", "7", "8", "9"}
LetterChars == {"a", "b", "n", "A", "B", "N"}

\* str.isdigit(), str.isalpha(), str.isalnum()
isdigit(s) == s # <<>> /\ \A i \in 1 .. Len(s) : s[i] \in DigitChars
isalpha(s) == s # <<>> /\ \A i \in 1 .. Len(s) : s[i] \in LetterChars
isalnum(s) ==
  s # <<>> /\ \A i \in 1 .. Len(s) : s[i] \in DigitChars \cup LetterChars

\* Mutant of Classify: the test for a ticker made before the test for digits.
ClassifyTickerFirst(input) ==
  IF isalpha(input) \/ isalnum(input) THEN "ticker"
  ELSE IF isdigit(input) THEN "cik"
  ELSE "title"

\* searchCompany: the branch taken for an input
Classify(input) ==
  IF isdigit(input) THEN "cik"
  ELSE IF isalpha(input) \/ isalnum(input) THEN "ticker"
  ELSE "title"

\* Mutants of Falsy: a ticker lookup never taken as empty, and always.
FalsyNever(r) == FALSE
FalsyAlways(r) == TRUE

\* not r, for r a list or None
Falsy(r) == r.isNone \/ r.list = <<>>

\* searchCompany, from the input to the search result: the indexes looked in,
\* in order, and the result handed to parseSearchResults.
RunSearch(input, tIndex, nIndex, cIndex) ==
  CASE Classify(input) = "cik" ->
         [consulted |-> <<"cik">>, result |-> searchByCik(cIndex, input)]
    [] Classify(input) = "ticker" ->
         LET byTicker == searchByTicker(tIndex, LowerStr(input))
         IN IF Falsy(byTicker)
            THEN [consulted |-> <<"ticker", "title">>,
                  result |-> searchByTitle(nIndex, LowerStr(input), TRUE)]
            ELSE [consulted |-> <<"ticker">>, result |-> byTicker]
    [] OTHER ->
         [consulted |-> <<"title">>,
          result |-> searchByTitle(nIndex, LowerStr(input), TRUE)]

\* parseSearchResults: what the loop body appends for one company of the
\* search result, a triple or nothing
ParseRecord(company, input) ==
  LET title == IF "title" \in DOMAIN company THEN company.title ELSE NA
      ticker == IF "ticker" \in DOMAIN company THEN company.ticker ELSE NA
      hasCik == "cik_str" \in DOMAIN company
      cikText == IF hasCik THEN Str(company.cik_str) ELSE NA
  IN IF title = NA
     THEN <<[title |-> input, ticker |-> ticker, cik |-> cikText]>>
     ELSE IF ticker = NA
     THEN <<[title |-> title, ticker |-> input, cik |-> cikText]>>
     ELSE IF ~hasCik
     THEN <<[title |-> title, ticker |-> ticker, cik |-> input]>>
     ELSE <<>>

\* parseSearchResults: the triples appended for the first n companies
RECURSIVE ParseUpTo(_, _, _)
ParseUpTo(list, input, n) ==
  IF n = 0
  THEN <<>>
  ELSE ParseUpTo(list, input, n - 1) \o ParseRecord(list[n], input)

\* parseSearchResults: if len(searchResults) == 1
OneResult(list) == Len(list) = 1

\* parseSearchResults.  The value is None, one triple of strings, or the three
\* tuples titles, tickers, ciks.
parseSearchResults(searchResults, input) ==
  IF Falsy(searchResults)
  THEN [kind |-> "None"]
  ELSE LET rows == ParseUpTo(searchResults.list, input, Len(searchResults.list))
       IN IF OneResult(searchResults.list)
          THEN IF rows = <<>>
               THEN [kind |-> "IndexError"]
               ELSE [kind |-> "triple", title |-> rows[1].title,
                     ticker |-> rows[1].ticker, cik |-> rows[1].cik]
          ELSE [kind |-> "tuples",
                titles  |-> [i \in 1 .. Len(rows) |-> rows[i].title],
                tickers |-> [i \in 1 .. Len(rows) |-> rows[i].ticker],
                ciks    |-> [i \in 1 .. Len(rows) |-> rows[i].cik]]

\* handleSearchResults: the branch of the if / elif / elif chain; with no branch
\* taken the function ends and returns None.
HandleBranch(parsed) ==
  CASE parsed.kind = "None"   -> "retry"
    [] parsed.kind = "triple" -> "single"
    [] OTHER                  -> IF Len(parsed.titles) > 1 THEN "multiple" ELSE "fallthrough"

\* The triple handleSearchResults returns for candidate i.  Its identifier is
\* a str: parseSearchResults appends str(cik) or userInput.
Candidate(parsed, i) ==
  IF parsed.kind = "triple"
  THEN [kind |-> "triple", title |-> parsed.title, ticker |-> parsed.ticker,
        cik |-> parsed.cik, cikType |-> "str"]
  ELSE [kind |-> "triple", title |-> parsed.titles[i],
        ticker |-> parsed.tickers[i], cik |-> parsed.ciks[i],
        cikType |-> "str"]

\* def handleSearchResults(parsedResults, tickerIndex, titleIndex, cikIndex,
\* userInput): the number of positional parameters, none with a default
HandleArity == 5

\* The arguments of the two calls that retry the selection
RetryArgs == <<"parsedResults", "userInput">>

\* A call of handleSearchResults with the given positional arguments: Python
\* raises TypeError before the body runs unless every parameter is given.
CallHandle(args) == IF Len(args) = HandleArity THEN "select" ELSE "TypeError"

\* The nested retries the interpreter's stack holds.  Every search that finds
\* nothing leaves the frames of searchCompany and handleSearchResults on the
\* stack and calls searchCompany again; CPython raises RecursionError at its
\* recursion limit (1000 frames by default, which this code does not change,
\* so after some 498 such searches in a row).  The model runs the same nesting
\* with a smaller limit: the prompt reached after MaxRetries retries is the
\* deepest one.
MaxRetries == 2

\* What the user can type at the selection: a number, or text that int() refuses.
SelectionInputs ==
  {[kind |-> "int", n |-> k] : k \in 0 .. MaxCompanies + 1}
    \cup {[kind |-> "text", n |-> 0]}

\* mainSearch: choice == "1", the call of searchCompany up to its input()
EnterSearchCompany ==
  /\ phase = "indexed"
  /\ phase' = "prompt"
  /\ UNCHANGED <<companyData, tickerIndex, titleIndex, cikIndex, lookup, query,
                 found, prompt, browse>>
  /\ UNCHANGED otherVars

\* Where a search run at the deepest prompt the stack allows can end: the calls
\* of searchCompany go one and two frames deeper than the input() that has
\* just returned, and which of them the stack has no room for depends on the
\* depth mainSearch started at and on how deep input() and print() go for the
\* streams at hand.  "none" is the search that runs to its branch; "search" is
\* RecursionError before a result is there, in the print of the kind of search
\* or in searchByCik, searchByTicker or searchByTitle; "parse" is
\* RecursionError in the print of parseSearchResults for an empty result;
\* "handle" is RecursionError in handleSearchResults for two candidates or
\* more, in a print of the list or in the input() of the selection before
\* anything is typed.  Above the deepest prompt every call has room.
Overflows(depth) ==
  IF depth < MaxRetries THEN {"none"}
  ELSE {"none", "search", "parse", "handle"}

\* searchCompany from the input typed to the first branch of
\* handleSearchResults: a result returned, the selection asked, or, for an empty
\* result, the message and time.sleep(5); at the deepest prompt the
\* RecursionError of one of its calls as well, which no handler catches.
SearchCompany(input) ==
  /\ phase = "prompt"
  /\ LET run == RunSearch(input, tickerIndex, titleIndex, cikIndex)
         parsed == parseSearchResults(run.result, input)
         branch == IF parsed.kind = "IndexError" THEN "IndexError"
                   ELSE HandleBranch(parsed)
     IN \E overflow \in Overflows(retries) :
          /\ overflow = "parse" => branch = "retry"
          /\ overflow = "handle" => branch = "multiple"
          /\ found' = IF overflow = "search" THEN found ELSE run.result
          /\ phase' = CASE overflow # "none"     -> "fault"
                        [] branch = "retry"      -> "empty"
                        [] branch = "multiple"   -> "select"
                        [] branch = "IndexError" -> "fault"
                        [] OTHER                 -> "returned"
          /\ prompt' =
               [prompt EXCEPT
                  !.userInput = input,
                  !.consulted = IF overflow = "search" THEN @ ELSE run.consulted,
                  !.parsedResults =
                     IF overflow \in {"search", "parse"} THEN @ ELSE parsed,
                  !.ret = CASE overflow # "none"         -> @
                            [] branch = "single"      -> Candidate(parsed, 1)
                            [] branch = "fallthrough" -> [kind |-> "None"]
                            [] OTHER                  -> @,
                  !.fault = CASE overflow # "none"        -> "RecursionError"
                              [] branch = "IndexError" -> "IndexError"
                              [] OTHER                 -> @]
  /\ UNCHANGED <<companyData, tickerIndex, titleIndex, cikIndex, lookup, query,
                 browse>>
  /\ UNCHANGED otherVars

\* handleSearchResults after the sleep of its first branch: return
\* searchCompany(tickerIndex, titleIndex, cikIndex), the nested call up to its
\* input(), or the RecursionError of a call the stack has no room for, which
\* no handler catches.  The locals of the search that found nothing are not
\* read again.
RetryPrompt ==
  /\ phase = "empty"
  /\ IF retries < MaxRetries
     THEN /\ phase' = "prompt"
          /\ found' = PyNone
          /\ prompt' = [prompt EXCEPT !.retries = @ + 1,
                                      !.userInput = <<>>,
                                      !.consulted = <<>>,
                                      !.parsedResults = [kind |-> "unset"]]
     ELSE /\ phase' = "fault"
          /\ found' = found
          /\ prompt' = [prompt EXCEPT !.fault = "RecursionError"]
  /\ UNCHANGED <<companyData, tickerIndex, titleIndex, cikIndex, lookup, query,
                 browse>>
  /\ UNCHANGED otherVars

\* handleSearchResults from the selection typed: the candidate returned, or the
\* call that retries, from the else branch or from except ValueError.
Select(typed) ==
  /\ phase = "select"
  /\ IF typed.kind = "int" /\ 1 <= typed.n /\ typed.n <= Len(parsedResults.titles)
     THEN /\ phase' = "returned"
          /\ prompt' = [prompt EXCEPT !.selection = typed,
                                      !.ret = Candidate(parsedResults, typed.n)]
     ELSE /\ phase' = IF CallHandle(RetryArgs) = "select" THEN "select" ELSE "fault"
          /\ prompt' = [prompt EXCEPT
                          !.selection = typed,
                          !.fault = IF CallHandle(RetryArgs) = "select" THEN @
                                    ELSE CallHandle(RetryArgs)]
  /\ UNCHANGED <<companyData, tickerIndex, titleIndex, cikIndex, lookup, query,
                 found, browse>>
  /\ UNCHANGED otherVars

PromptNext ==
  \/ CreateHashIndexes
  \/ EnterSearchCompany
  \/ \E input \in InputPool : SearchCompany(input)
  \/ RetryPrompt
  \/ \E typed \in SelectionInputs : Select(typed)

PromptSpec == SearchInit /\ [][PromptNext]_vars

----------------------------------------------------------------------------
(* searchSecCompanies.py: browseAllCompanies *)

\* The browse is run on longer lists of fewer companies: two whose titles differ
\* in case only, and one whose title sorts after them.
MaxRows == 5
MaxPageSize == 2

BrowseCompanies ==
  {[cik_str |-> 1, ticker |-> <<"A">>, title |-> <<"A", "b">>],
   [cik_str |-> 12, ticker |-> <<"a">>, title |-> <<"a", "b">>],
   [cik_str |-> 1, ticker |-> <<"a">>, title |-> <<"b">>]}
BrowseLists == SeqsUpTo(BrowseCompanies, MaxRows)

\* What the user can type at the table, after strip().lower(): a word, decimal
\* digits with their value, or a digit that is not decimal (a superscript two),
\* for which isdigit() is true and int() raises ValueError.
BrowseInputs ==
  {[kind |-> "word", word |-> w, n |-> 0] : w \in {"next", "back", "other"}}
    \cup {[kind |-> "digits", word |-> "", n |-> k] : k \in 0 .. MaxRows + 1}
    \cup {[kind |-> "superscript", word |-> "", n |-> 0]}

\* What os.get_terminal_size() does: it raises OSError, or reports the lines of
\* the terminal.
TerminalSizes ==
  {[ok |-> FALSE, lines |-> 0]}
    \cup {[ok |-> TRUE, lines |-> n] : n \in 0 .. MaxPageSize + 2}

\* getTerminalHeight: the height returned when the size cannot be detected
DefaultHeight == 20

\* getTerminalHeight
getTerminalHeight(size) == IF size.ok THEN size.lines - 2 ELSE DefaultHeight

\* a // b and a % b of Python, for a >= 0 and b # 0: the quotient is rounded
\* down and the remainder has the sign of b
FloorDiv(a, b) == IF b > 0 THEN a \div b ELSE -((a + (-b) - 1) \div (-b))
PyMod(a, b) == a - b * FloorDiv(a, b)

\* list[i:j]: the place an index of a slice stands for
SliceIndex(i, len) ==
  IF i < 0 THEN (IF len + i < 0 THEN 0 ELSE len + i)
  ELSE IF i > len THEN len ELSE i

\* ord() of a character
Ord(c) ==
  CASE c = "/" -> 47
    [] c \in DigitChars -> 48 + (CHOOSE d \in 0 .. 9 : DigitChar(d) = c)
    [] c = "A" -> 65
    [] c = "B" -> 66
    [] c = "N" -> 78
    [] c = "a" -> 97
    [] c = "b" -> 98
    [] OTHER   -> 110

\* s < t, for strings
RECURSIVE StrLess(_, _)
StrLess(s, t) ==
  IF t = <<>> THEN FALSE
  ELSE IF s = <<>> THEN TRUE
  ELSE IF s[1] # t[1] THEN Ord(s[1]) < Ord(t[1])
  ELSE StrLess(Tail(s), Tail(t))

\* Mutant of AllCompaniesUpTo: one row for each title, that of the first company
\* of its bucket.
RECURSIVE AllCompaniesFirstOnly(_, _)
AllCompaniesFirstOnly(index, n) ==
  IF n = 0
  THEN <<>>
  ELSE AllCompaniesFirstOnly(index, n - 1) \o
         <<[title  |-> index[n].key,
            ticker |-> index[n].bucket[1].ticker,
            cik    |-> index[n].bucket[1].cik_str]>>

\* browseAllCompanies: allCompanies after the first n entries of
\* titleIndex.items(), a row [title, ticker, cik] for each company of a bucket,
\* the title being the key of the bucket
RECURSIVE AllCompaniesUpTo(_, _)
AllCompaniesUpTo(index, n) ==
  IF n = 0
  THEN <<>>
  ELSE AllCompaniesUpTo(index, n - 1) \o
         [i \in 1 .. Len(index[n].bucket) |->
            [title  |-> index[n].key,
             ticker |-> index[n].bucket[i].ticker,
             cik    |-> index[n].bucket[i].cik_str]]

\* sorted(): one row put in its place in a sorted list, after the rows whose key
\* is not greater
InsertSorted(sorted, row) ==
  LET after == {i \in 1 .. Len(sorted) :
                  StrLess(LowerStr(row.title), LowerStr(sorted[i].title))}
      at == IF after = {} THEN Len(sorted) + 1
            ELSE CHOOSE i \in after : \A j \in after : i <= j
  IN SubSeq(sorted, 1, at - 1) \o <<row>> \o SubSeq(sorted, at, Len(sorted))

RECURSIVE SortedUpTo(_, _)
SortedUpTo(list, n) ==
  IF n = 0 THEN <<>> ELSE InsertSorted(SortedUpTo(list, n - 1), list[n])

\* sortAllCompanies: sorted(allCompanies, key=lambda company: company[0].lower())
sortAllCompanies(allCompanies) == SortedUpTo(allCompanies, Len(allCompanies))

\* Mutant of TotalPages: the page of the remaining rows is not counted.
TotalPagesFloor(total, height) == FloorDiv(total, height)

\* browseAllCompanies: totalPages
TotalPages(total, height) ==
  FloorDiv(total, height) + (IF PyMod(total, height) > 0 THEN 1 ELSE 0)

\* browseAllCompanies: startIdx
StartIdx(page, height) == page * height

\* browseAllCompanies: endIdx
EndIdx(page, height, total) ==
  IF StartIdx(page, height) + height < total
  THEN StartIdx(page, height) + height
  ELSE total

\* displayCompanyTable: the rows [idx + 1] + company of
\* enumerate(companiesSorted[startIdx:endIdx], start=startIdx)
TableRows(sorted, startIdx, endIdx) ==
  LET lo == SliceIndex(startIdx, Len(sorted))
      hi == SliceIndex(endIdx, Len(sorted))
  IN [k \in 1 .. (hi - lo) |->
        [row |-> (startIdx + k - 1) + 1, company |-> sorted[lo + k]]]

\* The table of a page
PageRows(sorted, page, height) ==
  TableRows(sorted, StartIdx(page, height), EndIdx(page, height, Len(sorted)))

\* browseAllCompanies: action == 'next' and currentPage < totalPages - 1
CanNext(page, pages) == page < pages - 1

\* browseAllCompanies: action == 'back' and currentPage > 0
CanBack(page) == page > 0

\* The company list is loaded for a browse.
BrowseInit ==
  /\ ClientInit
  /\ phase = "loaded"
  /\ companyData \in BrowseLists
  /\ tickerIndex = <<>>
  /\ titleIndex = <<>>
  /\ cikIndex = <<>>
  /\ lookup = "none"
  /\ query = <<>>
  /\ found = PyNone
  /\ PromptIdle
  /\ BrowseIdle
  /\ SessionIdle
  /\ FactsIdle

\* mainSearch: choice == "2"; browseAllCompanies up to the first table shown,
\* or to the division by a screenHeight of zero
BrowseStart ==
  /\ phase = "indexed"
  /\ \E size \in TerminalSizes :
       LET sorted == sortAllCompanies(AllCompaniesUpTo(titleIndex, Len(titleIndex)))
           height == getTerminalHeight(size)
       IN IF height = 0
          THEN /\ phase' = "fault"
               /\ prompt' = [prompt EXCEPT !.fault = "ZeroDivisionError"]
               /\ browse' = [browse EXCEPT !.companiesSorted = sorted,
                                           !.screenHeight = height]
          ELSE /\ phase' = "browsing"
               /\ prompt' = prompt
               /\ browse' = [companiesSorted |-> sorted,
                             screenHeight |-> height,
                             currentPage |-> 0,
                             totalPages |-> TotalPages(Len(sorted), height),
                             action |-> action,
                             shown |-> PageRows(sorted, 0, height)]
  /\ UNCHANGED <<companyData, tickerIndex, titleIndex, cikIndex, lookup, query,
                 found>>
  /\ UNCHANGED otherVars

\* browseAllCompanies: one turn of the loop, from what the user typed at the
\* table to the next table shown, to the return, or to the ValueError of int().
\* The identifier of the triple returned is the cik_str of the record as the
\* list has it, an int.
BrowseInput(typed) ==
  /\ phase = "browsing"
  /\ LET selected == /\ typed.kind = "digits"
                     /\ 1 <= typed.n
                     /\ typed.n <= Len(companiesSorted)
         page == CASE typed.kind = "word" /\ typed.word = "next"
                        /\ CanNext(currentPage, totalPages) -> currentPage + 1
                   [] typed.kind = "word" /\ typed.word = "back"
                        /\ CanBack(currentPage) -> currentPage - 1
                   [] OTHER -> currentPage
         raised == typed.kind = "superscript"
     IN /\ phase' = IF selected THEN "returned"
                    ELSE IF raised THEN "fault" ELSE "browsing"
        /\ browse' =
             [browse EXCEPT
                !.action = typed,
                !.currentPage = page,
                !.shown = IF selected \/ raised THEN @
                          ELSE PageRows(companiesSorted, page, screenHeight)]
        /\ prompt' =
             [prompt EXCEPT
                !.ret = IF selected
                        THEN [kind |-> "triple",
                              title  |-> companiesSorted[typed.n].title,
                              ticker |-> companiesSorted[typed.n].ticker,
                              cik    |-> companiesSorted[typed.n].cik,
                              cikType |-> "int"]
                        ELSE @,
                !.fault = IF raised THEN "ValueError" ELSE @]
  /\ UNCHANGED <<companyData, tickerIndex, titleIndex, cikIndex, lookup, query,
                 found>>
  /\ UNCHANGED otherVars

BrowseNext ==
  \/ CreateHashIndexes
  \/ BrowseStart
  \/ \E typed \in BrowseInputs : BrowseInput(typed)

BrowseSpec == BrowseInit /\ [][BrowseNext]_vars

----------------------------------------------------------------------------
(* requestCompanyFacts.py: updateFyAndFrameCols *)

\* The rows of the frame handed to one call.
MaxFacts == 2

\* A cell of the frame: missing (None or NaN, what pd.isna tells), or a string.
Missing == [isna |-> TRUE, s |-> <<>>]
Cell(str) == [isna |-> FALSE, s |-> str]

\* The strings of the model
FY == <<"F", "Y">>
Q1 == <<"Q", "1">>
CY == <<"C", "Y">>
LowerSentinel == <<"N", "/", "a">>

\* The fiscal year of a row, an int
FyPool == {2020}

\* fp: missing, the full year, a quarter
FpPool == {Missing, Cell(FY), Cell(Q1)}

\* frame: missing, or a frame of 6, of 7 and of 9 characters
FramePool ==
  {Missing,
   Cell(<<"C", "Y", "2", "0", "1", "9">>),
   Cell(<<"C", "Y", "2", "0", "1", "9", "Q">>),
   Cell(<<"C", "Y", "2", "0", "1", "9", "Q", "2", "I">>)}

FactRows == [fy : FyPool, fp : FpPool, frame : FramePool]
FactFrames == SeqsUpTo(FactRows, MaxFacts)

\* s[i:j] of a string, for 0 <= i <= j
Slice(str, i, j) ==
  SubSeq(str, i + 1, IF j < Len(str) THEN j ELSE Len(str))

\* correctRow: pd.isna(row['fp']) or row['fp'] == 'FY'
FpEmptyOrFY(row) == row.fp.isna \/ row.fp.s = FY

\* updateFyAndFrameCols: correctRow
correctRow(row) ==
  IF FpEmptyOrFY(row) /\ row.frame.isna
  THEN [row EXCEPT !.fp = Cell(LowerSentinel),
                   !.frame = Cell(CY \o Str(row.fy))]
  ELSE IF row.frame.isna /\ ~row.fp.isna /\ row.fp.s # FY
  THEN [row EXCEPT !.frame = Cell(CY \o Str(row.fy) \o row.fp.s \o <<"I">>)]
  ELSE IF FpEmptyOrFY(row) /\ ~row.frame.isna
  THEN IF Len(row.frame.s) = 6
       THEN [row EXCEPT !.fp = Cell(NA)]
       ELSE IF Len(row.frame.s) >= 9
       THEN [row EXCEPT !.fp = Cell(Slice(row.frame.s, 6, 8))]
       ELSE row
  ELSE row

\* A frame of fact rows is handed to updateFyAndFrameCols.
FactsInit ==
  /\ ClientInit
  /\ phase = "off"
  /\ companyData = <<>>
  /\ tickerIndex = <<>>
  /\ titleIndex = <<>>
  /\ cikIndex = <<>>
  /\ lookup = "none"
  /\ query = <<>>
  /\ found = PyNone
  /\ PromptIdle
  /\ BrowseIdle
  /\ SessionIdle
  /\ \E rows \in FactFrames :
       facts = [rows |-> rows, corrected |-> <<>>, done |-> FALSE]

\* updateFyAndFrameCols: conceptDataFrame.apply(correctRow, axis=1), as the
\* rows given and the rows returned
updateFyAndFrameCols(rows) ==
  [rows |-> rows,
   corrected |-> [i \in 1 .. Len(rows) |-> correctRow(rows[i])],
   done |-> TRUE]

\* One call of updateFyAndFrameCols
UpdateFyAndFrameCols ==
  /\ ~facts.done
  /\ facts' = updateFyAndFrameCols(facts.rows)
  /\ UNCHANGED <<phase, companyData, tickerIndex, titleIndex, cikIndex, lookup,
                 query, found, prompt, browse, session>>
  /\ UNCHANGED rlVars

FactsNext == UpdateFyAndFrameCols

FactsSpec == FactsInit /\ [][FactsNext]_vars

----------------------------------------------------------------------------
(* main.py and searchSecCompanies.py: main and mainSearch *)

\* The invalid menu choices followed before the model stops counting them.
\* Each one is a nested call of mainSearch (return mainSearch()) with a fetch
\* of its own.
MaxInvalid == 8

\* The lists the server may hold: two companies whose tickers and titles differ
\* in case only, each listed once at most, in either order
MainCompanies == {company \in BrowseCompanies : Len(company.title) = 2}
MainLists ==
  {list \in SeqsUpTo(MainCompanies, MaxCompanies) :
     \A i, j \in 1 .. Len(list) : list[i] = list[j] => i = j}

\* makeRequest: the width of cikNum.zfill(10)
CikWidth == 10

\* str.zfill(width), for a string without sign
RECURSIVE ZFill(_, _)
ZFill(str, width) ==
  IF Len(str) >= width THEN str ELSE ZFill(<<"0">> \o str, width)

\* makeRequest: if cikNum, for the identifier of a triple
Truthy(triple) ==
  IF triple.cikType = "int" THEN triple.cik # 0 ELSE triple.cik # <<>>

\* makeRequest: what the lines before the request do for the identifier of a
\* triple: the URL is formatted with the padded identifier, left as it is for a
\* falsy one, or zfill is looked up on an int and AttributeError is raised
FormatUrl(triple) ==
  IF ~Truthy(triple) THEN [fault |-> "none", padded |-> <<>>]
  ELSE IF triple.cikType = "str"
  THEN [fault |-> "none", padded |-> ZFill(triple.cik, CikWidth)]
  ELSE [fault |-> "AttributeError", padded |-> <<>>]

\* makeRequest: RateLimiter(maxCalls=10, period=60).  main runs one thread
\* through a few requests, so MainSpec keeps the maxCalls of the source; the
\* period is Period ticks as everywhere.
MainMaxCalls == 10

\* The thread of main.py, the only one it starts
MainThread == 1

\* main's thread enters makeRequest, past the lines that format the URL, up to
\* the call of EdgarClient(rateLimiter=RateLimiter(maxCalls=10, period=60))
CallMakeRequest ==
  /\ pc[MainThread] = "idle"
  /\ started' = started + 1
  /\ rl' = IF InstanceIsNone
           THEN [rl EXCEPT ![started + 1] = NewRateLimiter(MainMaxCalls, Now)]
           ELSE rl
  /\ Begin(MainThread, "makeRequest", started + 1)
  /\ UNCHANGED <<rlLock, clsLock, instance, nObjs, objs, grants, observed>>
  /\ UNCHANGED recent

\* main starts; the server holds a company list.
MainInit ==
  /\ ClientInit
  /\ phase = "main"
  /\ companyData = <<>>
  /\ tickerIndex = <<>>
  /\ titleIndex = <<>>
  /\ cikIndex = <<>>
  /\ lookup = "none"
  /\ query = <<>>
  /\ found = PyNone
  /\ PromptIdle
  /\ BrowseIdle
  /\ FactsIdle
  /\ \E list \in MainLists :
       session = [remote |-> list, fetches |-> 0, builds |-> 0,
                  followUp |-> "none", padded |-> <<>>]

\* mainSearch from its entry into downloadSecCompanies, which is
\* makeRequest(COMPANYLISTURL), up to the construction of the client
MainSearch ==
  /\ phase = "main"
  /\ phase' = "listing"
  /\ session' = [session EXCEPT !.fetches = @ + 1]
  /\ CallMakeRequest
  /\ UNCHANGED <<companyData, tickerIndex, titleIndex, cikIndex, lookup, query,
                 found, prompt, browse, facts>>

\* mainSearch: makeRequest has returned; companyData is bound to what it gave
\* and handed to createHashIndexes, which raises AttributeError at
\* companyData.items() when the fetch gave None; then the menu is shown.
Downloaded ==
  /\ phase = "listing"
  /\ Return(MainThread)
  /\ LET built == createHashIndexes(session.remote)
     IN IF result[MainThread] = "None"
        THEN /\ phase' = "fault"
             /\ prompt' = [prompt EXCEPT !.fault = "AttributeError"]
             /\ UNCHANGED <<companyData, tickerIndex, titleIndex, cikIndex>>
        ELSE /\ phase' = "indexed"
             /\ prompt' = prompt
             /\ companyData' = session.remote
             /\ tickerIndex' = built.ticker
             /\ titleIndex' = built.title
             /\ cikIndex' = built.cik
  /\ session' = [session EXCEPT !.builds = @ + 1]
  /\ UNCHANGED <<lookup, query, found, browse, facts>>

\* mainSearch: a choice that is neither "1" nor "2": the message, the sleep and
\* return mainSearch(), the nested call up to its entry.  The locals of the
\* call that asked are not read again.
InvalidChoice ==
  /\ phase = "indexed"
  /\ session.fetches <= MaxInvalid
  /\ phase' = "main"
  /\ companyData' = <<>>
  /\ tickerIndex' = <<>>
  /\ titleIndex' = <<>>
  /\ cikIndex' = <<>>
  /\ UNCHANGED <<lookup, query, found, prompt, browse, session, facts>>
  /\ UNCHANGED rlVars

\* main: title, ticker, cik = mainSearch(), and for a title that is not empty
\* bulkRequestCompanyFacts(cik) into its makeRequest, whose zfill comes before
\* the client is built and before the try
FollowUp ==
  /\ phase = "returned"
  /\ LET url == FormatUrl(ret)
     IN IF ret.kind # "triple"
        THEN /\ phase' = "fault"
             /\ session' = [session EXCEPT !.followUp = "TypeError"]
             /\ UNCHANGED rlVars
        ELSE IF ret.title = <<>>
        THEN /\ phase' = "done"
             /\ session' = [session EXCEPT !.followUp = "skipped"]
             /\ UNCHANGED rlVars
        ELSE IF url.fault # "none"
        THEN /\ phase' = "fault"
             /\ session' = [session EXCEPT !.followUp = url.fault]
             /\ UNCHANGED rlVars
        ELSE /\ phase' = "fetching"
             /\ session' = [session EXCEPT !.followUp = "requested",
                                           !.padded = url.padded]
             /\ CallMakeRequest
  /\ UNCHANGED <<companyData, tickerIndex, titleIndex, cikIndex, lookup, query,
                 found, prompt, browse, facts>>

\* The concepts of the facts document parsed in a run, and the rows of a
\* concept's frame
MaxConcepts == 1
MaxServed == 1

\* The rows the server gives main: a full year and a quarter, without frame
ServedRows == {row \in FactRows : row.frame.isna /\ ~row.fp.isna}

\* The facts documents the server may give: the frames of their concepts, in
\* the order parseFactsDataJSON takes them
FactDocuments == SeqsUpTo(SeqsUpTo(ServedRows, MaxServed), MaxConcepts)

\* bulkRequestCompanyFacts: makeRequest has returned, and
\* parseCompanyFactsJSON raises AttributeError at companyFactsData.keys() when
\* it gave None; parseFactsDataJSON hands the frame of every concept of the
\* document to updateFyAndFrameCols, the last of them as facts shows it.
FactsFetched ==
  /\ phase = "fetching"
  /\ Return(MainThread)
  /\ IF result[MainThread] = "None"
     THEN /\ phase' = "fault"
          /\ prompt' = [prompt EXCEPT !.fault = "AttributeError"]
          /\ session' = [session EXCEPT !.followUp = "facts failed"]
          /\ facts' = facts
     ELSE /\ phase' = "parsed"
          /\ prompt' = prompt
          /\ session' = [session EXCEPT !.followUp = "facts parsed"]
          /\ \E document \in FactDocuments :
               facts' = IF document = <<>> THEN facts
                        ELSE updateFyAndFrameCols(document[Len(document)])
  /\ UNCHANGED <<companyData, tickerIndex, titleIndex, cikIndex, lookup, query,
                 found, browse>>

\* main: bulkRequestCompanyFacts has returned, and
\* bulkRequestCompanySubmissions(cik) is run into its makeRequest; the
\* identifier was a string for the facts and is one here.  main keeps the
\* parsed facts for the Excel file.
RequestSubmissions ==
  /\ phase = "parsed"
  /\ phase' = "submissions"
  /\ CallMakeRequest
  /\ UNCHANGED <<companyData, tickerIndex, titleIndex, cikIndex, lookup, query,
                 found, prompt, browse, session, facts>>

\* bulkRequestCompanySubmissions: makeRequest has returned, and
\* parseCompanySubmissionsData raises AttributeError at the first .get of the
\* data when it gave None; with the data main goes on to the Excel file.
SubmissionsFetched ==
  /\ phase = "submissions"
  /\ Return(MainThread)
  /\ IF result[MainThread] = "None"
     THEN /\ phase' = "fault"
          /\ prompt' = [prompt EXCEPT !.fault = "AttributeError"]
          /\ session' = [session EXCEPT !.followUp = "submissions failed"]
     ELSE /\ phase' = "done"
          /\ prompt' = prompt
          /\ session' = [session EXCEPT !.followUp = "downloaded"]
  /\ UNCHANGED <<companyData, tickerIndex, titleIndex, cikIndex, lookup, query,
                 found, browse, facts>>

MainNext ==
  \/ MainSearch
  \/ Run(MainThread)
  \/ Downloaded
  \/ InvalidChoice
  \/ EnterSearchCompany
  \/ \E input \in InputPool : SearchCompany(input)
  \/ RetryPrompt
  \/ \E typed \in SelectionInputs : Select(typed)
  \/ BrowseStart
  \/ \E typed \in BrowseInputs : BrowseInput(typed)
  \/ FollowUp
  \/ FactsFetched
  \/ RequestSubmissions
  \/ SubmissionsFetched
  \/ Tick

MainSpec == MainInit /\ [][MainNext]_vars

----------------------------------------------------------------------------
(* Properties of RateLimiter, EdgarClient and makeRequest *)

\* A thread inside the with block of wait() of limiter l.
InWait(t, l) ==
  /\ pc[t] \in {"w_window", "w_test", "w_load", "w_store", "w_ret", "w_sleep"}
  /\ Self(t) = l

\* A thread whose get_data is at its network call, requests.get.
AtNet(t) == pc[t] = "net"

\* A thread whose get_data has returned or raised, with result[t] what it gave.
GetDataOver(t) == pc[t] = "mr_try" \/ (pc[t] = "done" /\ kind[t] = "get_data")

\* A thread whose makeRequest has returned, with result[t] what it gave.
MakeRequestOver(t) == pc[t] = "done" /\ kind[t] = "makeRequest"

\* C1: the wait() calls that complete within period of a window boundary (a
\* value startTime took), counted from the moment startTime took it, never
\* exceed maxCalls.
C1_WindowBound == \A l \in LimiterIds : observed[l] <= MaxCalls

\* C1 witness: a full window, with one more caller being delayed.
C1_Witness ==
  \E l \in LimiterIds, t \in Threads :
    /\ rl[l].alive
    /\ observed[l] = MaxCalls
    /\ pc[t] = "w_sleep"
    /\ Self(t) = l

\* C2: once the singleton exists it is never replaced and its rateLimiter never
\* changes; the rateLimiter it gets is the argument of the construction that
\* created it; and every construction returns that one object.
C2_Singleton ==
  [][ /\ (instance # None =>
            /\ instance' = instance
            /\ objs'[instance] = objs[instance])
      /\ (instance = None /\ instance' # None =>
            \E t \in Threads : pc[t] = "new_body" /\ objs'[instance'] = arg[t])
      /\ \A t \in Threads : client'[t] \in {None, instance'} ]_vars

\* C2 witness: two constructions returned the same object, and the later one
\* passed a fresh limiter that the object did not take.
C2_Witness ==
  \E t, u \in Threads :
    /\ t # u
    /\ instance # None
    /\ client[t] = instance
    /\ client[u] = instance
    /\ arg[u] # None
    /\ arg[u] # objs[instance]

\* C3 as claimed: every network call of get_data comes after a completed wait()
\* on the singleton's limiter, whatever the first construction received.
C3_Original ==
  \A t \in Threads :
    AtNet(t) => waited[t] # None /\ waited[t] = objs[client[t]]

\* C3 as amended: when the first construction received a RateLimiter, every
\* network call of get_data comes after a completed wait() on that limiter; when
\* it received None, get_data makes the network call with no wait.
C3_Amended ==
  \A t \in Threads :
    AtNet(t) => waited[t] = objs[instance]

\* C3 witness: a network call made after a completed wait() on the singleton's
\* limiter.
C3_Witness ==
  \E t \in Threads :
    AtNet(t) /\ waited[t] # None /\ waited[t] = objs[instance]

\* C4 as claimed: get_data and makeRequest both give None, never an exception,
\* for every non-200 status and every transport failure.
C4_Original ==
  \A t \in Threads :
    (GetDataOver(t) \/ MakeRequestOver(t)) /\ outcome[t] \in {"status", "transport"}
      => result[t] = "None"

\* C4 as amended: makeRequest gives None, never an exception, for every non-200
\* status and every transport failure; get_data gives None for every non-200
\* status, and a transport failure leaves get_data as an exception.
C4_Amended ==
  \A t \in Threads :
    /\ MakeRequestOver(t) /\ outcome[t] \in {"status", "transport"}
         => result[t] = "None"
    /\ GetDataOver(t) /\ outcome[t] = "status" => result[t] = "None"
    /\ GetDataOver(t) /\ outcome[t] = "transport" => result[t] = "raise"

\* C4 witness: makeRequest returned None after a transport failure.
C4_Witness ==
  \E t \in Threads :
    MakeRequestOver(t) /\ outcome[t] = "transport" /\ result[t] = "None"

\* C5: at most one caller is inside the with block of a limiter, calls stays
\* within 0..maxCalls, and calls is the number of wait() calls completed since
\* the last reset (plus the one that has incremented and not yet returned).
C5_ThreadSafe ==
  \A l \in LimiterIds :
    rl[l].alive =>
      /\ Cardinality({t \in Threads : InWait(t, l)}) <= 1
      /\ 0 <= rl[l].calls
      /\ rl[l].calls <= MaxCalls
      /\ rl[l].calls
           = grants[l] + Cardinality({t \in Threads : pc[t] = "w_ret" /\ Self(t) = l})

\* C5 witness: one caller between the read and the write of calls += 1 while
\* another caller is at the lock of the same limiter.
C5_Witness ==
  \E t, u \in Threads :
    /\ pc[t] = "w_store"
    /\ pc[u] = "w_lock"
    /\ Self(t) = Self(u)

\* C6: every wait() call that was entered returns, having incremented calls
\* exactly once.
C6_Eventually ==
  \A t \in Threads :
    (pc[t] = "w_lock") ~> (pc[t] = "net" /\ consumed[t] = 1)

\* C6 witness: a wait() that found the window full and slept has returned with
\* one slot, and the caller that queued at the lock behind it is still there.
C6_Witness ==
  \E t, u \in Threads :
    /\ pc[t] = "net"
    /\ blocked[t]
    /\ consumed[t] = 1
    /\ pc[u] = "w_lock"

\* C7: a caller goes to sleep only when the window is full and not expired, and
\* a caller that slept goes on only in an iteration that saw the clock past
\* startTime + period and reset the window: it returns holding the first slot of
\* the new window.
C7_Burst ==
  \A t \in Threads :
    /\ pc[t] = "w_sleep" =>
         rl[Self(t)].calls = MaxCalls /\ elapsed[t] <= Period
    /\ blocked[t] /\ pc[t] \in {"w_load", "w_store", "w_ret"} =>
         elapsed[t] > Period
    /\ blocked[t] /\ pc[t] = "w_ret" =>
         rl[Self(t)].calls = 1 /\ grants[Self(t)] = 0

\* C7 witness: maxCalls callers returned without sleeping, and the next one,
\* which slept, is returning with the first slot of a new window.
C7_Witness ==
  \E t \in Threads :
    /\ pc[t] = "w_ret"
    /\ blocked[t]
    /\ started = MaxCalls + 1
    /\ rl[Self(t)].calls = 1

----------------------------------------------------------------------------
(* Properties of the company index *)

\* The number of entries of all the buckets of a dict.
RECURSIVE BucketTotal(_, _)
BucketTotal(index, n) ==
  IF n = 0 THEN 0 ELSE BucketTotal(index, n - 1) + Len(index[n].bucket)

\* The number of times e occurs in a list.
Count(list, e) == Cardinality({i \in 1 .. Len(list) : list[i] = e})

\* C8: for a company list of N records, the buckets of each of the three dicts
\* that createHashIndexes returns hold N entries in all.
C8_BucketTotals ==
  phase \in {"indexed", "searched"} =>
    /\ BucketTotal(tickerIndex, Len(tickerIndex)) = Len(companyData)
    /\ BucketTotal(titleIndex, Len(titleIndex)) = Len(companyData)
    /\ BucketTotal(cikIndex, Len(cikIndex)) = Len(companyData)

\* C8 witness: an index built from records that share a ticker key, a title key
\* and an identifier.
C8_Witness ==
  /\ phase = "indexed"
  /\ Len(companyData) >= 2
  /\ \E i \in 1 .. Len(tickerIndex) : Len(tickerIndex[i].bucket) >= 2
  /\ \E i \in 1 .. Len(titleIndex) : Len(titleIndex[i].bucket) >= 2
  /\ \E i \in 1 .. Len(cikIndex) : Len(cikIndex[i].bucket) >= 2

\* C9: two queries that differ only in letter case get identical results from
\* searchByTicker and from searchByTitle, exact and partial.
C9_CaseInsensitive ==
  phase = "searched" =>
    \A other \in Queries :
      LowerStr(other) = LowerStr(query) =>
        /\ searchByTicker(tickerIndex, other) = searchByTicker(tickerIndex, query)
        /\ searchByTitle(titleIndex, other, FALSE) = searchByTitle(titleIndex, query, FALSE)
        /\ searchByTitle(titleIndex, other, TRUE) = searchByTitle(titleIndex, query, TRUE)

\* C10: for a non-empty query, every entry of the exact title search is an entry
\* of the partial title search, as many times at least.
C10_PartialSuperset ==
  phase = "searched" /\ lookup = "title" /\ query # <<>> =>
    LET partial == searchByTitle(titleIndex, query, TRUE)
    IN /\ ~found.isNone => ~partial.isNone
       /\ \A i \in 1 .. Len(found.list) :
            Count(partial.list, found.list[i]) >= Count(found.list, found.list[i])

\* C10 witness: an exact title search that found companies, for a query that is
\* also a proper part of another title.
C10_Witness ==
  /\ phase = "searched"
  /\ lookup = "title"
  /\ query # <<>>
  /\ ~found.isNone
  /\ Len(searchByTitle(titleIndex, query, TRUE).list) > Len(found.list)

----------------------------------------------------------------------------
(* Properties of searchCompany, parseSearchResults and handleSearchResults *)

\* searchCompany has run a search for userInput.
Searched == consulted # <<>>

\* The companies of the source list whose ticker is the text, whatever the case.
SameTicker(text) ==
  LET Test(company) == LowerStr(company.ticker) = LowerStr(text)
  IN SelectSeq(companyData, Test)

\* The selection typed is a row of the candidate list.
ValidSelection ==
  /\ selection.kind = "int"
  /\ 1 <= selection.n
  /\ selection.n <= Len(parsedResults.titles)

\* C11: when two or more records of the source share the ticker looked up, the
\* ticker search returns all of them in the order of the source, searchCompany
\* asks for a selection, and it returns only what the user selected.
C11_SharedTicker ==
  LET same == SameTicker(userInput)
  IN Searched /\ consulted[1] = "ticker" /\ Len(same) >= 2 =>
       /\ consulted = <<"ticker">>
       /\ found = PyList([i \in 1 .. Len(same) |->
                   [cik_str |-> same[i].cik_str, title |-> same[i].title]])
       /\ parsedResults.kind = "tuples"
       /\ Len(parsedResults.titles) = Len(same)
       /\ selection.kind = "unset" => phase = "select"
       /\ phase = "returned" =>
            ValidSelection /\ ret = Candidate(parsedResults, selection.n)

\* C12: for an input of digits only, searchCompany looks in the identifier index
\* alone, for exactly the text typed.
C12_DigitsAreIdentifier ==
  Searched /\ isdigit(userInput) =>
    /\ consulted = <<"cik">>
    /\ found = DictGet(cikIndex, userInput)

\* C12 witness: digits that are the identifier of one company, which is returned.
C12_Witness ==
  /\ phase = "returned"
  /\ isdigit(userInput)
  /\ consulted = <<"cik">>
  /\ Len(found.list) = 1

\* C13: an alphanumeric input that is not all digits is looked up in the ticker
\* index first, and the partial title search is run for it exactly when the
\* ticker lookup found nothing; any other input that is not all digits goes to
\* the partial title search alone.
C13_TickerThenTitle ==
  Searched /\ ~isdigit(userInput) =>
    LET byTicker == DictGet(tickerIndex, LowerStr(userInput))
        byTitle == searchByTitle(titleIndex, LowerStr(userInput), TRUE)
    IN IF isalnum(userInput)
       THEN /\ consulted[1] = "ticker"
            /\ consulted = <<"ticker", "title">> <=> byTicker.isNone
            /\ consulted = <<"ticker">> <=> ~byTicker.isNone
            /\ found = IF byTicker.isNone THEN byTitle ELSE byTicker
       ELSE /\ consulted = <<"title">>
            /\ found = byTitle

\* C13 witness: a ticker lookup that found nothing, and the partial title search
\* of the same input that found a company.
C13_Witness ==
  /\ consulted = <<"ticker", "title">>
  /\ isalnum(userInput)
  /\ ~found.isNone

\* C14: a selection that is out of range or not a number leaves the program at
\* the selection of the same candidates, with no exception.
C14_Reprompt ==
  selection.kind # "unset" /\ ~ValidSelection =>
    /\ phase = "select"
    /\ fault = "none"

\* C15: a search that found nothing returns nothing and puts searchCompany back
\* at its prompt, once more for each such search, however many came before it;
\* the step taken from the prompt is a new search for the input typed next; what
\* searchCompany returns is a triple.
C15_RetryOnEmpty ==
  /\ [](/\ Searched /\ found.isNone => phase = "empty" /\ ret.kind = "unset"
        /\ phase = "returned" => ret.kind = "triple")
  /\ [][/\ phase = "empty" => phase' = "prompt" /\ retries' = retries + 1
        /\ phase = "prompt" =>
             /\ userInput' \in InputPool
             /\ found' = RunSearch(userInput', tickerIndex, titleIndex,
                                   cikIndex).result
             /\ phase' \in {"empty", "select", "returned"}]_vars

\* C16: one candidate is returned as parsed, with no selection asked; with two
\* candidates or more a selection is asked before anything is returned.
C16_OneOrMany ==
  Searched /\ ~found.isNone =>
    IF Len(found.list) = 1
    THEN /\ phase = "returned"
         /\ selection.kind = "unset"
         /\ LET triple == ParseRecord(found.list[1], userInput)[1]
            IN /\ ret.kind = "triple"
               /\ ret.title = triple.title
               /\ ret.ticker = triple.ticker
               /\ ret.cik = triple.cik
    ELSE /\ selection.kind = "unset" => phase = "select"
         /\ phase = "returned" => ValidSelection

\* C17: each candidate has the user's text in the field its index record lacks
\* and the record's own values in the two others, the identifier as text; a
\* field is 'N/A' only where the record's own value is.
C17_FillMissing ==
  Searched /\ ~found.isNone /\ parsedResults.kind \in {"triple", "tuples"} =>
    \A i \in 1 .. Len(found.list) :
      LET record == found.list[i]
          candidate == Candidate(parsedResults, i)
          index == consulted[Len(consulted)]
      IN /\ candidate.title = IF index = "title" THEN userInput ELSE record.title
         /\ candidate.ticker = IF index = "ticker" THEN userInput ELSE record.ticker
         /\ candidate.cik = IF index = "cik" THEN userInput ELSE Str(record.cik_str)

----------------------------------------------------------------------------
(* Properties of browseAllCompanies *)

\* The row numbers of a table
RowNumbers(table) == [k \in 1 .. Len(table) |-> table[k].row]

\* C18: with S rows per page and T companies, the table of page p has the rows
\* p*S+1 .. min((p+1)*S, T), each with the company of that place in the sorted
\* list, and every row 1..T is on one page and no other.
C18_PageRows ==
  phase = "browsing" =>
    LET S == screenHeight
        T == Len(companiesSorted)
        p == currentPage
        last == IF (p + 1) * S < T THEN (p + 1) * S ELSE T
    IN /\ RowNumbers(shown) = [k \in 1 .. (last - p * S) |-> p * S + k]
       /\ \A k \in 1 .. Len(shown) : shown[k].company = companiesSorted[shown[k].row]
       /\ \A r \in 1 .. T :
            \A q \in 0 .. (totalPages - 1) :
              (\E k \in 1 .. Len(PageRows(companiesSorted, q, S)) :
                 PageRows(companiesSorted, q, S)[k].row = r) <=> q = (r - 1) \div S

\* C19: for a list that is not empty currentPage stays in 0 .. totalPages - 1;
\* 'next' adds one except on the last page, 'back' takes one except on the first
\* page, and nothing else that is typed changes it.
C19_PageInRange ==
  /\ [](phase = "browsing" /\ companiesSorted # <<>> =>
          0 <= currentPage /\ currentPage <= totalPages - 1)
  /\ [][phase = "browsing" /\ companiesSorted # <<>> =>
          currentPage' =
            CASE action'.kind = "word" /\ action'.word = "next" ->
                   IF currentPage = totalPages - 1 THEN currentPage
                   ELSE currentPage + 1
              [] action'.kind = "word" /\ action'.word = "back" ->
                   IF currentPage = 0 THEN currentPage ELSE currentPage - 1
              [] OTHER -> currentPage]_vars

\* C20: a row number r of 1 .. total typed at any page ends the browse with the
\* triple of row r, and that triple has the title, the ticker and the identifier
\* of a record of the source list.
C20_RowSelected ==
  phase = "returned" /\ action.kind = "digits" =>
    /\ 1 <= action.n /\ action.n <= Len(companiesSorted)
    /\ ret.title = companiesSorted[action.n].title
    /\ ret.ticker = companiesSorted[action.n].ticker
    /\ ret.cik = companiesSorted[action.n].cik
    /\ \E k \in 1 .. Len(companyData) :
         /\ companyData[k].title = ret.title
         /\ companyData[k].ticker = ret.ticker
         /\ companyData[k].cik_str = ret.cik


\* browseAllCompanies has built its list: a table is shown, a row was chosen, or
\* the function has raised.
Browsed == phase \in {"browsing", "returned", "fault"}

\* C21: the page size of a browse is 1 at least, whatever the terminal reports,
\* and the page count is never computed by a division by zero.
C21_PageSizeFloor ==
  Browsed => screenHeight >= 1 /\ fault # "ZeroDivisionError"

\* The row of browseAllCompanies for a record of the source list
RowOf(company) ==
  [title |-> LowerStr(company.title), ticker |-> company.ticker,
   cik |-> company.cik_str]

\* C22: the list browsed has a row for every record of the source list, as many
\* times as the record is in the source list, whether or not records share a
\* title, and no other row; and its rows are in ascending order of their titles
\* compared without regard to case.
C22_AllSorted ==
  Browsed =>
    /\ Len(companiesSorted) = Len(companyData)
    /\ \A k \in 1 .. Len(companyData) :
         Count(companiesSorted, RowOf(companyData[k]))
           = Count([j \in 1 .. Len(companyData) |-> RowOf(companyData[j])],
                   RowOf(companyData[k]))
    /\ \A i, j \in 1 .. Len(companiesSorted) :
         i < j => ~StrLess(LowerStr(companiesSorted[j].title),
                           LowerStr(companiesSorted[i].title))

\* C22 witness: a list of three companies, two of them sharing a title but for
\* its case, given out of order and browsed in order.
C22_Witness ==
  /\ phase = "browsing"
  /\ Len(companyData) = 3
  /\ companyData[1].title = <<"b">>
  /\ companyData[2].title = <<"A", "b">>
  /\ companyData[3].title = <<"a", "b">>
  /\ companiesSorted[3].title = <<"b">>
  /\ companiesSorted[1].ticker # companiesSorted[2].ticker

\* browseAllCompanies: what was typed at page `page` of `pages` takes none of
\* the branches that turn the page or return: it is not 'next' before the last
\* page, not 'back' after the first page, and not a row number of 1 .. total.
\* 'next' on the last page and 'back' on the first page are of these inputs.
InvalidInput(typed, page, pages) ==
  /\ ~(typed.kind = "word" /\ typed.word = "next" /\ CanNext(page, pages))
  /\ ~(typed.kind = "word" /\ typed.word = "back" /\ CanBack(page))
  /\ ~(typed.kind = "digits" /\ 1 <= typed.n /\ typed.n <= Len(companiesSorted))

\* C23: an input that is not 'next', 'back' or a row number of 1 .. total leaves
\* the page and the list as they are and the browse going, with the same table
\* shown again; so do 'next' on the last page and 'back' on the first page.
C23_InvalidInputKeepsPage ==
  [][phase = "browsing" /\ InvalidInput(action', currentPage, totalPages) =>
       /\ phase' = "browsing"
       /\ currentPage' = currentPage
       /\ companiesSorted' = companiesSorted
       /\ shown' = shown]_vars

\* C26: for a page size of 1 at least the page count is the least number of
\* pages that hold every row: none for an empty list, and total div pageSize
\* and one more exactly when total is not a multiple of pageSize.
C26_PageCount ==
  phase = "browsing" /\ screenHeight >= 1 =>
    LET T == Len(companiesSorted)
        S == screenHeight
    IN /\ totalPages >= 0
       /\ totalPages * S >= T
       /\ totalPages > 0 => (totalPages - 1) * S < T
       /\ T = 0 => totalPages = 0
       /\ totalPages = (T \div S) + (IF T % S = 0 THEN 0 ELSE 1)

\* C26 witness: five companies on pages of two rows are three pages.
C26_Witness ==
  /\ phase = "browsing"
  /\ screenHeight = 2
  /\ Len(companiesSorted) = 5
  /\ totalPages = 3

----------------------------------------------------------------------------
(* Properties of searchCompany for the empty input *)

\* The companies of the first n buckets of an index, in the order of the index
RECURSIVE BucketsUpTo(_, _)
BucketsUpTo(index, n) ==
  IF n = 0 THEN <<>> ELSE BucketsUpTo(index, n - 1) \o index[n].bucket

\* C30: an input that is empty once stripped is searched as a title and as a
\* part of a title, and the search gives the companies of every bucket of the
\* title index; with two records or more the selection among all the companies
\* is asked, and not another search.
C30_EmptyInputListsAll ==
  Searched /\ userInput = <<>> =>
    /\ consulted = <<"title">>
    /\ companyData # <<>> =>
         /\ ~found.isNone
         /\ found.list = BucketsUpTo(titleIndex, Len(titleIndex))
         /\ Len(found.list) = Len(companyData)
    /\ Len(companyData) >= 2 =>
         /\ phase # "empty"
         /\ parsedResults.kind = "tuples"
         /\ Len(parsedResults.titles) = Len(companyData)
         /\ selection.kind = "unset" => phase = "select"

----------------------------------------------------------------------------
(* Properties of updateFyAndFrameCols *)

\* C27: each row is corrected as the rule table says, with the one sentinel
\* "N/A" wherever fp is marked as absent: fp empty or 'FY' and no frame give
\* fp = "N/A" and frame = CY{fy}; no frame and another fp give frame =
\* CY{fy}{fp}I; fp empty or 'FY' and a frame of length 6 give fp = "N/A"; fp
\* empty or 'FY' and a frame of length 9 or more give fp = frame[6:8]; any other
\* row is returned as it was given.
C27_RuleTable ==
  facts.done =>
    /\ Len(facts.corrected) = Len(facts.rows)
    /\ \A i \in 1 .. Len(facts.rows) :
         LET row == facts.rows[i]
             out == facts.corrected[i]
             fpAbsent == row.fp.isna \/ row.fp.s = FY
         IN CASE fpAbsent /\ row.frame.isna ->
                   out = [fy |-> row.fy, fp |-> Cell(NA),
                          frame |-> Cell(CY \o Str(row.fy))]
              [] ~fpAbsent /\ row.frame.isna ->
                   out = [fy |-> row.fy, fp |-> row.fp,
                          frame |-> Cell(CY \o Str(row.fy) \o row.fp.s \o <<"I">>)]
              [] fpAbsent /\ ~row.frame.isna /\ Len(row.frame.s) = 6 ->
                   out = [row EXCEPT !.fp = Cell(NA)]
              [] fpAbsent /\ ~row.frame.isna /\ Len(row.frame.s) >= 9 ->
                   out = [row EXCEPT !.fp = Cell(<<row.frame.s[7], row.frame.s[8]>>)]
              [] OTHER -> out = row

----------------------------------------------------------------------------
(* Properties of main and mainSearch *)

\* mainSearch has returned to main.
Resolved == phase \in {"returned", "fetching", "done"} \/ session.followUp # "none"

\* C24: in one run the list is fetched once and the indexes are built once,
\* whatever is typed at the menu and after it: never a second fetch or a second
\* createHashIndexes, and one of each when a company is resolved.
C24_FetchedOnce ==
  /\ session.fetches <= 1
  /\ session.builds <= 1
  /\ Resolved => session.fetches = 1 /\ session.builds = 1

\* C25: whatever the fetch of the list gives and whatever is typed at the menu,
\* the search and the selection, mainSearch raises nothing: it is at a prompt
\* or it has returned a triple.
C25_NoFault ==
  /\ session.followUp = "none" => phase # "fault" /\ fault = "none"
  /\ phase = "returned" => ret.kind = "triple"

\* C29: the identifier of every triple mainSearch returns, from the search and
\* from the browse, is a string, and the follow-up fetch of main reaches its
\* request with the identifier padded to 10 characters.
C29_IdentifierIsString ==
  /\ Resolved /\ ret.kind = "triple" => ret.cikType = "str"
  /\ session.followUp # "AttributeError"
  /\ session.followUp = "requested" => Len(session.padded) = CikWidth

----------------------------------------------------------------------------
(* Properties of RateLimiter.wait over any interval *)

\* The completions of wait() of limiter l that are at most n ticks old
RECURSIVE CompletionsUpTo(_, _)
CompletionsUpTo(l, n) ==
  IF n < 0 THEN 0 ELSE CompletionsUpTo(l, n - 1) + recent[l][n]

\* C28: at any moment the calls of wait() of a limiter that completed within
\* the last Period ticks, whatever the moment, are 2 * maxCalls at most.
C28_AnyInterval ==
  \A l \in LimiterIds : CompletionsUpTo(l, Period) <= 2 * MaxCalls

\* C28 witness: 2 * maxCalls completions within Period ticks, maxCalls of them
\* in the window that has just begun and the others before its reset.
C28_Witness ==
  \E l \in LimiterIds :
    /\ rl[l].alive
    /\ CompletionsUpTo(l, Period) = 2 * MaxCalls
    /\ grants[l] = MaxCalls
    /\ recent[l][0] = MaxCalls

====
